---- MODULE Spec2Model ----
(***************************************************************************)
(* Model of the predicate-expression engine of expr_parser_test2.ipynb:    *)
(* class Expr, whose method test(o) splits self.args on AND/OR, evaluates  *)
(* each comparison clause against the object o and folds the results.      *)
(*                                                                         *)
(* Python strings are sequences of one-character strings.  Positions named *)
(* as in the code (i, last_pos) are 0-based; TLA+ sequences are 1-based,   *)
(* so expr[i] of the code is expr[i+1] here.                               *)
(***************************************************************************)
EXTENDS Integers, Sequences, FiniteSets, TLC

VARIABLES
    args,        \* self.args, the expression text
    o,           \* the object under test: leaf path (sequence of keys) -> value
    pc,          \* position in Expr.test / split_on_logical_ops
    parts,       \* split_on_logical_ops: parts
    operators,   \* split_on_logical_ops: operators
    last_pos,    \* split_on_logical_ops: last_pos
    in_quotes,   \* split_on_logical_ops: in_quotes
    i,           \* split_on_logical_ops: the loop index of enumerate(expr)
    matched,     \* history: the values of i at which a keyword was matched
    calls,       \* history: the calls of evaluate_comparison, in order
    result,      \* Expr.test: result
    k,           \* Expr.test: the loop index of enumerate(operators)
    outcome      \* "running", "returned" (result is the value), or the exception raised

vars == <<args, o, pc, parts, operators, last_pos, in_quotes, i, matched,
          calls, result, k, outcome>>

(***************************************************************************)
(* Bounds of the model.                                                    *)
(***************************************************************************)
MaxTok == 5
MaxClauses == 3

(***************************************************************************)
(* Characters: the printable ASCII range, in code-point order.             *)
(***************************************************************************)
Ascii ==
    << " ", "!", "\"", "#", "$", "%", "&", "'", "(", ")", "*", "+", ",", "-", ".", "/",
       "0", "1", "2", "3", "4", "5", "6", "7", "8", "9", ":", ";", "<", "=", ">", "?",
       "@", "A", "B", "C", "D", "E", "F", "G", "H", "I", "J", "K", "L", "M", "N", "O",
       "P", "Q", "R", "S", "T", "U", "V", "W", "X", "Y", "Z", "[", "backslash", "]", "^", "_",
       "backtick", "a", "b", "c", "d", "e", "f", "g", "h", "i", "j", "k", "l", "m", "n", "o",
       "p", "q", "r", "s", "t", "u", "v", "w", "x", "y", "z", "{", "|", "}", "~" >>

CodePoint(c) == 31 + (CHOOSE n \in 1..Len(Ascii) : Ascii[n] = c)

Chr(n) == Ascii[n - 31]

IsLower(c) ==
    c \in {"a", "b", "c", "d", "e", "f", "g", "h", "i", "j", "k", "l", "m",
           "n", "o", "p", "q", "r", "s", "t", "u", "v", "w", "x", "y", "z"}

IsUpper(c) ==
    c \in {"A", "B", "C", "D", "E", "F", "G", "H", "I", "J", "K", "L", "M",
           "N", "O", "P", "Q", "R", "S", "T", "U", "V", "W", "X", "Y", "Z"}

\* str.upper() on one character
Upper(c) == IF IsLower(c) THEN Chr(CodePoint(c) - 32) ELSE c

\* str.upper()
UpperStr(s) == [j \in 1..Len(s) |-> Upper(s[j])]

IsSpace(c) == c = " "

IsDigit(c) == c \in {"0", "1", "2", "3", "4", "5", "6", "7", "8", "9"}

\* the regex class \w
IsWord(c) == IsDigit(c) \/ c = "_" \/ IsUpper(c) \/ IsLower(c)

\* the test of char against the two quote characters
IsQuote(c) == c \in {"\"", "'"}

Min(a, b) == IF a < b THEN a ELSE b

\* Python's s[a:b] for 0 <= a, 0 <= b: clipped to the string, empty when a >= b
Slice(s, a, b) ==
    LET hi == Min(b, Len(s))
    IN  IF a + 1 > hi THEN <<>> ELSE SubSeq(s, a + 1, hi)

\* Python's  sub in s
RECURSIVE ContainsAt(_, _, _)
ContainsAt(s, sub, p) ==
    IF p + Len(sub) > Len(s) THEN FALSE
    ELSE IF Slice(s, p, p + Len(sub)) = sub THEN TRUE
    ELSE ContainsAt(s, sub, p + 1)

Contains(s, sub) == ContainsAt(s, sub, 0)

AndKw == <<" ", "A", "N", "D", " ">>
OrKw == <<" ", "O", "R", " ">>

(***************************************************************************)
(* split_on_logical_ops                                                    *)
(***************************************************************************)
\* faulty variant: only the double quote flips in_quotes
QuoteToggleDoubleOnly(char, inq) == IF char = "\"" THEN ~inq ELSE inq

\* a quote character of either kind flips in_quotes
QuoteToggle(char, inq) == IF IsQuote(char) THEN ~inq ELSE inq

ScanInit ==
    [parts |-> <<>>, operators |-> <<>>, last_pos |-> 0, in_quotes |-> FALSE,
     matched |-> <<>>]

\* faulty variant: a matched OR closes the clause but records no operator
ScanBodyOrDropsOperator(expr, st, n) ==
    LET inq == QuoteToggle(expr[n + 1], st.in_quotes)
    IN  IF ~inq /\ n + 5 <= Len(expr)
        THEN IF UpperStr(Slice(expr, n, n + 5)) = AndKw
             THEN [parts |-> Append(st.parts, Slice(expr, st.last_pos, n)),
                   operators |-> Append(st.operators, "AND"),
                   last_pos |-> n + 5, in_quotes |-> inq,
                   matched |-> Append(st.matched, n)]
             ELSE IF UpperStr(Slice(expr, n, n + 4)) = OrKw
             THEN [parts |-> Append(st.parts, Slice(expr, st.last_pos, n)),
                   operators |-> st.operators,
                   last_pos |-> n + 4, in_quotes |-> inq,
                   matched |-> Append(st.matched, n)]
             ELSE [st EXCEPT !.in_quotes = inq]
        ELSE [st EXCEPT !.in_quotes = inq]

\* one iteration of  for i, char in enumerate(expr)  at index n
ScanBody(expr, st, n) ==
    LET inq == QuoteToggle(expr[n + 1], st.in_quotes)
    IN  IF ~inq /\ n + 5 <= Len(expr)
        THEN IF UpperStr(Slice(expr, n, n + 5)) = AndKw
             THEN [parts |-> Append(st.parts, Slice(expr, st.last_pos, n)),
                   operators |-> Append(st.operators, "AND"),
                   last_pos |-> n + 5, in_quotes |-> inq,
                   matched |-> Append(st.matched, n)]
             ELSE IF UpperStr(Slice(expr, n, n + 4)) = OrKw
             THEN [parts |-> Append(st.parts, Slice(expr, st.last_pos, n)),
                   operators |-> Append(st.operators, "OR"),
                   last_pos |-> n + 4, in_quotes |-> inq,
                   matched |-> Append(st.matched, n)]
             ELSE [st EXCEPT !.in_quotes = inq]
        ELSE [st EXCEPT !.in_quotes = inq]

\* parts.append(expr[last_pos:])
ScanTail(expr, st) ==
    [st EXCEPT !.parts = Append(st.parts, Slice(expr, st.last_pos, Len(expr)))]

\* the loop from index n on; each iteration's state is bound as a value (nx)
\* before the next iteration reads it
RECURSIVE ScanFrom(_, _, _)
ScanFrom(expr, st, n) ==
    IF n >= Len(expr) THEN st
    ELSE CHOOSE r \in { ScanFrom(expr, nx, n + 1) : nx \in {ScanBody(expr, st, n)} } : TRUE

\* the whole function: the loop, then the tail
split_on_logical_ops(expr) == ScanTail(expr, ScanFrom(expr, ScanInit, 0))

(***************************************************************************)
(* Input strings for the splitter alone: every concatenation of at most    *)
(* MaxTok tokens.                                                          *)
(***************************************************************************)
Tokens ==
    { <<"\"">>, <<"'">>, <<"x">>, <<" ">>,
      <<" ", "A", "N", "D">>, <<" ", "o", "R">> }

RECURSIVE Flatten(_)
Flatten(ts) == IF ts = <<>> THEN <<>> ELSE Head(ts) \o Flatten(Tail(ts))

TokenStrings ==
    { Flatten(ts) : ts \in UNION { [1..n -> Tokens] : n \in 0..MaxTok } }

EmptyObj == {}

(***************************************************************************)
(* SpecSplit: split_on_logical_ops run on its own, one loop iteration per  *)
(* step.                                                                   *)
(***************************************************************************)
InitSplit ==
    /\ args \in TokenStrings
    /\ o = EmptyObj
    /\ pc = "scan"
    /\ parts = <<>>
    /\ operators = <<>>
    /\ last_pos = 0
    /\ in_quotes = FALSE
    /\ i = 0
    /\ matched = <<>>
    /\ calls = <<>>
    /\ result = FALSE
    /\ k = 0
    /\ outcome = "running"

ScanState ==
    [parts |-> parts, operators |-> operators, last_pos |-> last_pos,
     in_quotes |-> in_quotes, matched |-> matched]

ScanStep ==
    /\ pc = "scan"
    /\ i < Len(args)
    /\ \E st \in {ScanBody(args, ScanState, i)} :
           /\ parts' = st.parts
           /\ operators' = st.operators
           /\ last_pos' = st.last_pos
           /\ in_quotes' = st.in_quotes
           /\ matched' = st.matched
    /\ i' = i + 1
    /\ UNCHANGED <<args, o, pc, calls, result, k, outcome>>

ScanEnd ==
    /\ pc = "scan"
    /\ i >= Len(args)
    /\ parts' = ScanTail(args, ScanState).parts
    /\ pc' = "split_done"
    /\ UNCHANGED <<args, o, operators, last_pos, in_quotes, i, matched,
                   calls, result, k, outcome>>

NextSplit == ScanStep \/ ScanEnd

SpecSplit == InitSplit /\ [][NextSplit]_vars

(***************************************************************************)
(* Python values.  A number is kept in tenths (n), so that an int and a    *)
(* float compare by value; a bool is the int 0 or 1, as in Python.         *)
(***************************************************************************)
VInt(n) == [t |-> "int", n |-> n, s |-> <<>>]
VFloat(tenths) == [t |-> "float", n |-> tenths, s |-> <<>>]
VBool(b) == [t |-> "bool", n |-> IF b THEN 1 ELSE 0, s |-> <<>>]
VNone == [t |-> "none", n |-> 0, s |-> <<>>]
VStr(str) == [t |-> "str", n |-> 0, s |-> str]
\* a list of one int
VList(n) == [t |-> "list", n |-> n, s |-> <<>>]
\* a nested mapping met before the end of the path
VDict == [t |-> "dict", n |-> 0, s |-> <<>>]

IsNum(v) == v.t \in {"int", "float", "bool"}

Num(v) == IF v.t = "float" THEN v.n ELSE 10 * v.n

\* Python's ==  on the values above: numbers by value, the rest by type and value
PyEq(a, b) == IF IsNum(a) /\ IsNum(b) THEN Num(a) = Num(b) ELSE a = b

\* Python's <  on two str: lexicographic by code point
RECURSIVE StrLess(_, _)
StrLess(a, b) ==
    IF b = <<>> THEN FALSE
    ELSE IF a = <<>> THEN TRUE
    ELSE IF Head(a) = Head(b) THEN StrLess(Tail(a), Tail(b))
    ELSE CodePoint(Head(a)) < CodePoint(Head(b))

\* whether Python's < > <= >= are defined on the pair (else TypeError)
Orderable(a, b) ==
    \/ IsNum(a) /\ IsNum(b)
    \/ a.t = "str" /\ b.t = "str"
    \/ a.t = "list" /\ b.t = "list"

PyLess(a, b) ==
    IF IsNum(a) /\ IsNum(b) THEN Num(a) < Num(b)
    ELSE IF a.t = "str" THEN StrLess(a.s, b.s)
    ELSE a.n < b.n

Ret(b) == [kind |-> "bool", b |-> b]
Raise(e) == [kind |-> e, b |-> FALSE]

\* the if/elif chain on operator: the value returned or the exception raised
ApplyOperator(operator, fv, ev) ==
    IF operator = "==" THEN Ret(PyEq(fv, ev))
    ELSE IF operator = "!=" THEN Ret(~PyEq(fv, ev))
    ELSE IF ~Orderable(fv, ev) THEN Raise("TypeError")
    ELSE IF operator = ">" THEN Ret(PyLess(ev, fv))
    ELSE IF operator = "<" THEN Ret(PyLess(fv, ev))
    ELSE IF operator = ">=" THEN Ret(~PyLess(fv, ev))
    ELSE IF operator = "<=" THEN Ret(~PyLess(ev, fv))
    ELSE Raise("ValueError")

(***************************************************************************)
(* pydash.get(o, field): the object is the set of its leaves, each a path  *)
(* of keys and a value.  A path that ends inside the object yields the     *)
(* nested mapping, a path that leaves the object yields None.              *)
(***************************************************************************)
RECURSIVE SplitDots(_)
SplitDots(field) ==
    LET dots == {j \in 1..Len(field) : field[j] = "."}
    IN  IF dots = {} THEN <<field>>
        ELSE LET d == CHOOSE j \in dots : \A j2 \in dots : j <= j2
             IN  <<SubSeq(field, 1, d - 1)>> \o SplitDots(SubSeq(field, d + 1, Len(field)))

IsProperPrefix(segs, path) ==
    Len(segs) < Len(path) /\ SubSeq(path, 1, Len(segs)) = segs

Present(obj, segs) ==
    \E e \in obj : e.path = segs \/ IsProperPrefix(segs, e.path)

PydashGet(obj, field) ==
    LET segs == SplitDots(field)
    IN  IF \E e \in obj : e.path = segs
        THEN (CHOOSE e \in obj : e.path = segs).val
        ELSE IF \E e \in obj : IsProperPrefix(segs, e.path) THEN VDict
        ELSE VNone

(***************************************************************************)
(* The clause pattern  \$\.([\w\.]+)\s*(==|!=|>|<|>=|<=)\s*(.+)  applied   *)
(* by re.match to expr.strip().                                            *)
(***************************************************************************)
RECURSIVE LStrip(_)
LStrip(s) == IF s # <<>> /\ IsSpace(Head(s)) THEN LStrip(Tail(s)) ELSE s

RECURSIVE RStrip(_)
RStrip(s) ==
    IF s # <<>> /\ IsSpace(s[Len(s)]) THEN RStrip(SubSeq(s, 1, Len(s) - 1)) ELSE s

Strip(s) == LStrip(RStrip(s))

\* the alternation, in the order the pattern lists it
OpAlts ==
    << <<"=", "=">>, <<"!", "=">>, <<">">>, <<"<">>, <<">", "=">>, <<"<", "=">> >>

OpNames == << "==", "!=", ">", "<", ">=", "<=" >>

\* length of the longest run of characters satisfying [\w\.] from 1-based p
RECURSIVE FieldRun(_, _)
FieldRun(s, p) ==
    IF p <= Len(s) /\ (IsWord(s[p]) \/ s[p] = ".") THEN 1 + FieldRun(s, p + 1) ELSE 0

RECURSIVE SpaceRun(_, _)
SpaceRun(s, p) ==
    IF p <= Len(s) /\ IsSpace(s[p]) THEN 1 + SpaceRun(s, p + 1) ELSE 0

\* \s*(.+) on a non-empty remainder: the greedy \s* gives back one character
\* when it would leave nothing to (.+)
ValueGroup(rest) ==
    IF LStrip(rest) = <<>> THEN <<rest[Len(rest)]>> ELSE LStrip(rest)

\* re.match: the groups, or ok = FALSE when the pattern does not match.
\* The field and the first \s* are maximal (no operator starts with a
\* character they could give back); the alternatives are tried in order and
\* the first one that lets the rest of the pattern match is taken.
MatchStripped(s) ==
    LET run == IF Len(s) >= 2 /\ s[1] = "$" /\ s[2] = "." THEN FieldRun(s, 3) ELSE 0
        p == 3 + run + SpaceRun(s, 3 + run)
        Rest(a) == SubSeq(s, p + Len(OpAlts[a]), Len(s))
        AltOk(a) ==
            /\ Slice(s, p - 1, p - 1 + Len(OpAlts[a])) = OpAlts[a]
            /\ Rest(a) # <<>>
        alts == {a \in 1..Len(OpAlts) : AltOk(a)}
    IN  IF run = 0 \/ alts = {}
        THEN [ok |-> FALSE, field |-> <<>>, operator |-> "", value |-> <<>>]
        ELSE LET a == CHOOSE a1 \in alts : \A a2 \in alts : a1 <= a2
             IN  [ok |-> TRUE, field |-> SubSeq(s, 3, 2 + run),
                  operator |-> OpNames[a], value |-> ValueGroup(Rest(a))]

\* re.match(pattern, expr.strip())
MatchClause(text) == CHOOSE m \in { MatchStripped(s) : s \in {Strip(text)} } : TRUE

(***************************************************************************)
(* eval(value, {"__builtins__": {}}, {}) on the forms of Python expression *)
(* that the texts of this model can spell: a quoted string, True, False,   *)
(* None, a decimal integer, a float with one fractional digit, a sum of    *)
(* two integers, a one-element list.  Any other text raises (a NameError   *)
(* for a bare name, a SyntaxError otherwise).                              *)
(***************************************************************************)
DigitVal(c) == CodePoint(c) - 48

IsDigits(d) == d # <<>> /\ \A j \in 1..Len(d) : IsDigit(d[j])

RECURSIVE IntVal(_)
IntVal(d) ==
    IF d = <<>> THEN 0 ELSE 10 * IntVal(SubSeq(d, 1, Len(d) - 1)) + DigitVal(d[Len(d)])

\* a decimal integer literal: digits with no leading zero
IsNatLit(v) == IsDigits(v) /\ (Len(v) = 1 \/ v[1] # "0")

IsIntLit(v) == IsNatLit(v) \/ (Len(v) >= 2 /\ v[1] = "-" /\ IsNatLit(Tail(v)))

IntLitVal(v) == IF v[1] = "-" THEN 0 - IntVal(Tail(v)) ELSE IntVal(v)

IsPosFloatLit(v) ==
    /\ Len(v) >= 3
    /\ v[Len(v) - 1] = "."
    /\ IsDigit(v[Len(v)])
    /\ IsDigits(SubSeq(v, 1, Len(v) - 2))

IsFloatLit(v) == IsPosFloatLit(v) \/ (Len(v) >= 4 /\ v[1] = "-" /\ IsPosFloatLit(Tail(v)))

PosFloatTenths(v) == 10 * IntVal(SubSeq(v, 1, Len(v) - 2)) + DigitVal(v[Len(v)])

FloatTenths(v) == IF v[1] = "-" THEN 0 - PosFloatTenths(Tail(v)) ELSE PosFloatTenths(v)

IsStrLit(v) ==
    /\ Len(v) >= 2
    /\ IsQuote(v[1])
    /\ v[Len(v)] = v[1]
    /\ \A j \in 2..(Len(v) - 1) : v[j] # v[1]

IsSumLit(v) ==
    \E j \in 2..(Len(v) - 1) :
        /\ v[j] = "+"
        /\ IsNatLit(SubSeq(v, 1, j - 1))
        /\ IsNatLit(SubSeq(v, j + 1, Len(v)))

SumVal(v) ==
    LET j == CHOOSE j1 \in 2..(Len(v) - 1) : v[j1] = "+"
    IN  IntVal(SubSeq(v, 1, j - 1)) + IntVal(SubSeq(v, j + 1, Len(v)))

IsListLit(v) ==
    Len(v) >= 3 /\ v[1] = "[" /\ v[Len(v)] = "]" /\ IsIntLit(SubSeq(v, 2, Len(v) - 1))

TrueText == <<"T", "r", "u", "e">>
FalseText == <<"F", "a", "l", "s", "e">>
NoneText == <<"N", "o", "n", "e">>
NullText == <<"n", "u", "l", "l">>

PyEval(v) ==
    IF IsStrLit(v) THEN [ok |-> TRUE, v |-> VStr(SubSeq(v, 2, Len(v) - 1))]
    ELSE IF v = TrueText THEN [ok |-> TRUE, v |-> VBool(TRUE)]
    ELSE IF v = FalseText THEN [ok |-> TRUE, v |-> VBool(FALSE)]
    ELSE IF v = NoneText THEN [ok |-> TRUE, v |-> VNone]
    ELSE IF IsIntLit(v) THEN [ok |-> TRUE, v |-> VInt(IntLitVal(v))]
    ELSE IF IsFloatLit(v) THEN [ok |-> TRUE, v |-> VFloat(FloatTenths(v))]
    ELSE IF IsSumLit(v) THEN [ok |-> TRUE, v |-> VInt(SumVal(v))]
    ELSE IF IsListLit(v)
         THEN [ok |-> TRUE, v |-> VList(IntLitVal(SubSeq(v, 2, Len(v) - 1)))]
    ELSE [ok |-> FALSE, v |-> VNone]

\* try: eval(...)  except: keep the text as a string
EvaluatedValue(value) == IF PyEval(value).ok THEN PyEval(value).v ELSE VStr(value)

(***************************************************************************)
(* evaluate_comparison(expr): the record of one call (idx is the index of  *)
(* the clause in parts, 0 for the whole expression).                       *)
(***************************************************************************)
Evaluated(expr, obj, idx, m) ==
    IF ~m.ok
    THEN [idx |-> idx, expr |-> expr, ok |-> FALSE, field |-> <<>>,
          operator |-> "", value |-> <<>>, evaluated_value |-> VNone,
          field_value |-> VNone, ret |-> Raise("ValueError")]
    ELSE LET ev == EvaluatedValue(m.value)
             fv == PydashGet(obj, m.field)
         IN  [idx |-> idx, expr |-> expr, ok |-> TRUE, field |-> m.field,
              operator |-> m.operator, value |-> m.value,
              evaluated_value |-> ev, field_value |-> fv,
              ret |-> ApplyOperator(m.operator, fv, ev)]

evaluate_comparison(expr, obj, idx) ==
    CHOOSE c \in { Evaluated(expr, obj, idx, m) : m \in {MatchClause(expr)} } : TRUE

(***************************************************************************)
(* Texts used by the inputs, spelled as character sequences.               *)
(***************************************************************************)
\* n
PN == <<"n">>
\* t
PT == <<"t">>
\* z
PZ == <<"z">>
\* s
PS == <<"s">>
\* a
PA == <<"a">>
\* b
PB == <<"b">>
\* a.b
PAB == <<"a", ".", "b">>
\* 1
L1 == <<"1">>
\* 1.0
L10 == <<"1", ".", "0">>
\* True
LTRUE == <<"T", "r", "u", "e">>
\* None
LNONE == <<"N", "o", "n", "e">>
\* null
LNULL == <<"n", "u", "l", "l">>
\* abc
LBARE == <<"a", "b", "c">>
\* (dq)abc(dq)
LSTR == <<"\"", "a", "b", "c", "\"">>
\* 1+1
LSUM == <<"1", "+", "1">>
\* [1]
LLIST == <<"[", "1", "]">>
\* (dq)a AND b(dq)
LDQAND == <<"\"", "a", " ", "A", "N", "D", " ", "b", "\"">>
\* (dq)a(sq) AND b(dq)
LDQSQAND == <<"\"", "a", "'", " ", "A", "N", "D", " ", "b", "\"">>
\* (sq)a or b(sq)
LSQOR == <<"'", "a", " ", "o", "r", " ", "b", "'">>
\* bad
BAD == <<"b", "a", "d">>
\* abc
ABC == <<"a", "b", "c">>
\* a AND b
AANDB == <<"a", " ", "A", "N", "D", " ", "b">>

(***************************************************************************)
(* Inputs of Expr.test: expression texts and objects.                      *)
(***************************************************************************)
Paths == { PN, PT, PZ, PS, PAB }

Lits ==
    { L1, L10, LTRUE, LNONE, LNULL, LBARE, LSTR, LSUM, LLIST,
      LDQAND, LDQSQAND, LSQOR }

\* the clause text  $.<path> <op> <literal>
Mk(path, op, lit) == <<"$", ".">> \o path \o <<" ">> \o op \o <<" ">> \o lit

OpTexts == { OpAlts[a] : a \in 1..Len(OpAlts) }

Malformed == { BAD }

SingleClauses ==
    { Mk(p, op, l) : p \in Paths, op \in OpTexts, l \in Lits } \cup Malformed

\* the clauses chained with AND / OR
CoreClauses ==
    { Mk(PN, OpAlts[1], L1), Mk(PN, OpAlts[2], L1), Mk(PZ, OpAlts[3], L1),
      BAD, Mk(PS, OpAlts[1], LDQAND) }

Seps == { AndKw, OrKw }

RECURSIVE Join(_, _)
Join(cs, ss) ==
    IF Len(cs) = 1 THEN cs[1]
    ELSE cs[1] \o ss[1] \o Join(Tail(cs), Tail(ss))

Chains(n) ==
    { Join(cs, ss) : cs \in [1..n -> CoreClauses], ss \in [1..(n - 1) -> Seps] }

Exprs == SingleClauses \cup UNION { Chains(n) : n \in 2..MaxClauses }

Leaf(path, val) == [path |-> path, val |-> val]

\* {"n": 1, "t": True, "z": None, "s": "abc", "a": {"b": 1}}
Obj1 ==
    { Leaf(<<PN>>, VInt(1)), Leaf(<<PT>>, VBool(TRUE)), Leaf(<<PZ>>, VNone),
      Leaf(<<PS>>, VStr(ABC)), Leaf(<<PA, PB>>, VInt(1)) }

\* {"n": 2, "t": False, "z": "null", "s": "a AND b", "a": {"b": 1.0}}
Obj3 ==
    { Leaf(<<PN>>, VInt(2)), Leaf(<<PT>>, VBool(FALSE)), Leaf(<<PZ>>, VStr(LNULL)),
      Leaf(<<PS>>, VStr(AANDB)), Leaf(<<PA, PB>>, VFloat(10)) }

\* {} is EmptyObj
Objects == { Obj1, EmptyObj, Obj3 }

(***************************************************************************)
(* Spec: Expr(args).test(o)                                                *)
(***************************************************************************)
Init ==
    /\ args \in Exprs
    /\ o \in Objects
    /\ pc = "start"
    /\ parts = <<>>
    /\ operators = <<>>
    /\ last_pos = 0
    /\ in_quotes = FALSE
    /\ i = 0
    /\ matched = <<>>
    /\ calls = <<>>
    /\ result = FALSE
    /\ k = 0
    /\ outcome = "running"

\* ' AND ' not in self.args.upper() and ' OR ' not in self.args.upper()
NoLogicalOps(text) ==
    ~Contains(UpperStr(text), AndKw) /\ ~Contains(UpperStr(text), OrKw)

\* return evaluate_comparison(self.args)
Simple ==
    /\ pc = "start"
    /\ NoLogicalOps(args)
    /\ \E c \in {evaluate_comparison(args, o, 0)} :
           /\ calls' = <<c>>
           /\ result' = c.ret.b
           /\ outcome' = IF c.ret.kind = "bool" THEN "returned" ELSE c.ret.kind
    /\ pc' = "done"
    /\ UNCHANGED <<args, o, parts, operators, last_pos, in_quotes, i, matched, k>>

\* parts, operators = split_on_logical_ops(self.args): the call runs the scan to
\* its end within this step (SpecSplit follows the same loop body one iteration
\* at a time)
Split ==
    /\ pc = "start"
    /\ ~NoLogicalOps(args)
    /\ \E st \in {split_on_logical_ops(args)} :
           /\ parts' = st.parts
           /\ operators' = st.operators
           /\ last_pos' = st.last_pos
           /\ in_quotes' = st.in_quotes
           /\ matched' = st.matched
    /\ i' = Len(args)
    /\ pc' = "first"
    /\ UNCHANGED <<args, o, calls, result, k, outcome>>

\* result = evaluate_comparison(parts[0]); with no operators the loop is empty
First ==
    /\ pc = "first"
    /\ \E c \in {evaluate_comparison(parts[1], o, 0)} :
           /\ calls' = <<c>>
           /\ result' = c.ret.b
           /\ IF c.ret.kind # "bool"
              THEN pc' = "done" /\ outcome' = c.ret.kind
              ELSE IF operators = <<>>
              THEN pc' = "done" /\ outcome' = "returned"
              ELSE pc' = "fold" /\ outcome' = "running"
    /\ UNCHANGED <<args, o, parts, operators, last_pos, in_quotes, i, matched, k>>

\* faulty variant: the fold never breaks after an AND
AndNeverBreaks(res) == FALSE

\* if not result: break
AndBreaks(res) == ~res

\* result or evaluate_comparison(...): the right operand is skipped when result is true
OrSkips(res) == res

\* result and evaluate_comparison(...): the right operand is skipped when result is false
AndSkips(res) == ~res

\* the state after one iteration of the fold whose operand was skipped (skip) or
\* evaluated by call c, and which then breaks (brk) or goes on
FoldResult(skip, c, brk) ==
    IF ~skip /\ c.ret.kind # "bool"
    THEN [calls |-> Append(calls, c), result |-> result, k |-> k,
          pc |-> "done", outcome |-> c.ret.kind]
    ELSE LET r == IF skip THEN result ELSE c.ret.b
             cs == IF skip THEN calls ELSE Append(calls, c)
         IN  IF brk[r]
             THEN [calls |-> cs, result |-> r, k |-> k,
                   pc |-> "done", outcome |-> "returned"]
             ELSE IF k + 1 < Len(operators)
             THEN [calls |-> cs, result |-> r, k |-> k + 1,
                   pc |-> "fold", outcome |-> "running"]
             ELSE [calls |-> cs, result |-> r, k |-> k + 1,
                   pc |-> "done", outcome |-> "returned"]

\* if op == 'AND': result = result and evaluate_comparison(parts[i+1]); break if false
FoldAnd ==
    /\ pc = "fold"
    /\ operators[k + 1] = "AND"
    /\ \E nx \in {FoldResult(AndSkips(result),
                            evaluate_comparison(parts[k + 2], o, k + 1),
                            [r \in BOOLEAN |-> AndBreaks(r)])} :
           /\ calls' = nx.calls
           /\ result' = nx.result
           /\ k' = nx.k
           /\ pc' = nx.pc
           /\ outcome' = nx.outcome
    /\ UNCHANGED <<args, o, parts, operators, last_pos, in_quotes, i, matched>>

\* elif op == 'OR': result = result or evaluate_comparison(parts[i+1]);
\* the continue that follows is the last statement of the body and changes nothing
FoldOr ==
    /\ pc = "fold"
    /\ operators[k + 1] = "OR"
    /\ \E nx \in {FoldResult(OrSkips(result),
                            evaluate_comparison(parts[k + 2], o, k + 1),
                            [r \in BOOLEAN |-> FALSE])} :
           /\ calls' = nx.calls
           /\ result' = nx.result
           /\ k' = nx.k
           /\ pc' = nx.pc
           /\ outcome' = nx.outcome
    /\ UNCHANGED <<args, o, parts, operators, last_pos, in_quotes, i, matched>>

Next == Simple \/ Split \/ First \/ FoldAnd \/ FoldOr

Spec == Init /\ [][Next]_vars

(***************************************************************************)
(* Vocabulary of the properties.                                           *)
(***************************************************************************)
Range(f) == { f[j] : j \in DOMAIN f }

\* a connector keyword, in any letter case, stands at 0-based position n of text
KwAt(text, n) ==
    \/ UpperStr(Slice(text, n, n + Len(AndKw))) = AndKw
    \/ UpperStr(Slice(text, n, n + Len(OrKw))) = OrKw

\* the number of quote characters, of either kind, before 0-based position n
QuotesBefore(text, n) == Cardinality({ j \in 1..n : IsQuote(text[j]) })

Odd(n) == n % 2 = 1

OccursAt(text, sub, n) == Slice(text, n, n + Len(sub)) = sub

IsSuffix(suf, text) ==
    Len(suf) <= Len(text) /\ SubSeq(text, Len(text) - Len(suf) + 1, Len(text)) = suf

\* the literals enclosed in a pair of double quotes or a pair of single quotes
QuotedLits == { l \in Lits : Len(l) >= 2 /\ IsQuote(l[1]) /\ l[Len(l)] = l[1] }

KwLen(op) == IF op = "AND" THEN Len(AndKw) ELSE Len(OrKw)

Errors == { "ValueError", "TypeError" }

\* the whole of args was evaluated as one clause whose value text ends with literal l
EvaluatedIntact(l) ==
    /\ Len(calls) = 1
    /\ calls[1].expr = args
    /\ calls[1].ok
    /\ IsSuffix(l, calls[1].value)

(***************************************************************************)
(* C1.  Connectors have no precedence and apply left to right: whenever    *)
(* the expression is  A AND B OR C  and the three clauses evaluate without *)
(* error to a, b, c, Expr.test returns (a AND b) OR c.                     *)
(* The code breaks out of the fold when a AND b is false, so C is never    *)
(* reached; the notebook expects True for (true, false, true).             *)
(***************************************************************************)
C1_LeftToRightFold ==
    ( /\ pc = "done"
      /\ Len(parts) = 3
      /\ operators = <<"AND", "OR">>
      /\ \A j \in 1..3 : evaluate_comparison(parts[j], o, j - 1).ret.kind = "bool" )
    => ( /\ outcome = "returned"
         /\ result = ( \/ ( /\ evaluate_comparison(parts[1], o, 0).ret.b
                           /\ evaluate_comparison(parts[2], o, 1).ret.b )
                       \/ evaluate_comparison(parts[3], o, 2).ret.b ) )

(***************************************************************************)
(* C2.  Operator matching is longest-match-first: every clause             *)
(* $.<path> >= <literal>  (resp. <=) is parsed with operator >= (resp. <=) *)
(* and value <literal>.                                                    *)
(***************************************************************************)
C2_LongestMatchOperator ==
    \A j \in 1..Len(calls) : \A p \in Paths, l \in Lits :
        /\ calls[j].expr = Mk(p, OpAlts[5], l)
              => (calls[j].ok /\ calls[j].operator = ">=" /\ calls[j].value = l)
        /\ calls[j].expr = Mk(p, OpAlts[6], l)
              => (calls[j].ok /\ calls[j].operator = "<=" /\ calls[j].value = l)

(***************************************************************************)
(* C3 as stated.  The splitter never splits inside a quoted literal: for   *)
(* every clause of the expression whose literal is enclosed in a pair of   *)
(* quotes, no connector is matched between the opening and the closing     *)
(* quote, whatever the literal contains, and an expression that is one     *)
(* such clause is evaluated with the literal intact.                       *)
(***************************************************************************)
C3_NeverSplitsInsideQuotedLiteral ==
    pc \in {"first", "fold", "done"} =>
        \A p \in Paths, op \in OpTexts, l \in QuotedLits : \A n \in 0..Len(args) :
            OccursAt(args, Mk(p, op, l), n) =>
                LET close == n + Len(Mk(p, op, l)) - 1
                    open == close - Len(l) + 1
                IN  /\ \A m \in Range(matched) : ~(open < m /\ m < close)
                    /\ (pc = "done" /\ args = Mk(p, op, l)) => EvaluatedIntact(l)

(***************************************************************************)
(* C3 as amended.  The splitter never splits while its in-quote flag is    *)
(* set: a connector keyword, in any letter case, that is preceded in the   *)
(* expression by an odd number of quote characters (both kinds counted     *)
(* together) records no connector and starts no new clause.  So an         *)
(* expression that is one clause whose quoted literal contains no further  *)
(* quote character is evaluated with the literal intact.                   *)
(***************************************************************************)
C3_NoSplitWhileInQuotes ==
    pc \in {"first", "fold", "done"} =>
        /\ \A n \in 0..(Len(args) - 1) :
               (KwAt(args, n) /\ Odd(QuotesBefore(args, n))) => n \notin Range(matched)
        /\ \A p \in Paths, op \in OpTexts, l \in QuotedLits :
               ( /\ pc = "done"
                 /\ args = Mk(p, op, l)
                 /\ \A j \in 2..(Len(l) - 1) : ~IsQuote(l[j]) )
               => EvaluatedIntact(l)

\* $.s == "a AND b" on an object whose s is "a AND b": not split, and true
C3_Witness ==
    /\ pc = "done"
    /\ args = Mk(PS, OpAlts[1], LDQAND)
    /\ o = Obj3
    /\ \E n \in 0..(Len(args) - 1) : KwAt(args, n) /\ Odd(QuotesBefore(args, n))
    /\ matched = <<>>
    /\ parts = <<args>>
    /\ outcome = "returned"
    /\ result = TRUE

(***************************************************************************)
(* C4.  == and != never fail, and == is false unless types and values      *)
(* genuinely match: == returns true only when the field is present and has *)
(* the literal's type and value, and != returns true whenever the types    *)
(* are incompatible (absent vs anything, Boolean vs Integer, ...).         *)
(* Integer and Float are taken as one numeric type here.                   *)
(***************************************************************************)
SameType(a, b) == a.t = b.t \/ ({a.t, b.t} \subseteq {"int", "float"})

C4_EqOnlyOnSameTypeAndValue ==
    \A j \in 1..Len(calls) :
        LET c == calls[j]
            match == /\ Present(o, SplitDots(c.field))
                     /\ SameType(c.field_value, c.evaluated_value)
                     /\ PyEq(c.field_value, c.evaluated_value)
        IN  /\ (c.ok /\ c.operator = "==") => (c.ret.kind = "bool" /\ c.ret.b = match)
            /\ (c.ok /\ c.operator = "!=") => (c.ret.kind = "bool" /\ c.ret.b = ~match)

(***************************************************************************)
(* C5.  The ordering operators return a boolean only when both operands    *)
(* are ordering-comparable (both Integer/Float, or both String): when the  *)
(* field is absent or the types are mismatched the evaluation ends in an   *)
(* error and returns no boolean.                                           *)
(***************************************************************************)
OrderingComparable(a, b) ==
    \/ {a.t, b.t} \subseteq {"int", "float"}
    \/ (a.t = "str" /\ b.t = "str")

C5_OrderingRaisesOnMismatch ==
    \A j \in 1..Len(calls) :
        LET c == calls[j]
        IN  ( /\ c.ok
              /\ c.operator \in {">", "<", ">=", "<="}
              /\ \/ ~Present(o, SplitDots(c.field))
                 \/ ~OrderingComparable(c.field_value, c.evaluated_value) )
            => c.ret.kind \in Errors

(***************************************************************************)
(* C6.  Literal parsing is a closed grammar with a silent String fallback: *)
(* a value text that is not a quoted string, True/False, None/null, an     *)
(* integer or a float becomes the String holding the raw trimmed text; it  *)
(* is never evaluated as a general expression.                             *)
(***************************************************************************)
InClosedGrammar(v) ==
    \/ IsStrLit(v)
    \/ v \in {TrueText, FalseText, NoneText, NullText}
    \/ IsIntLit(v)
    \/ IsFloatLit(v)

C6_UntypedLiteralIsRawString ==
    \A j \in 1..Len(calls) :
        (calls[j].ok /\ ~InClosedGrammar(calls[j].value))
            => calls[j].evaluated_value = VStr(calls[j].value)

(***************************************************************************)
(* C7.  null and None are both the Null literal:  $.<path> == null  gives  *)
(* the result of  $.<path> == None , and is true when the field resolves   *)
(* to a null value.                                                        *)
(***************************************************************************)
C7_NullIsNone ==
    \A p \in Paths :
        (pc = "done" /\ args = Mk(p, OpAlts[1], LNULL)) =>
            /\ outcome = "returned"
            /\ calls[1].evaluated_value = VNone
            /\ result = evaluate_comparison(Mk(p, OpAlts[1], LNONE), o, 0).ret.b
            /\ PydashGet(o, p) = VNone => result = TRUE

(***************************************************************************)
(* C8.  Clauses are evaluated lazily and in order.  Clause 0 is always     *)
(* evaluated.  At an AND reached with result false the next clause is not  *)
(* evaluated and the fold stops, returning false.  At an OR reached with   *)
(* result true the next clause is not evaluated and the fold goes on to    *)
(* the following connector.  In the two other cases exactly the next       *)
(* clause is evaluated.  Expr.test raises only the error of the clause it  *)
(* evaluated last; a clause that is skipped raises nothing.                *)
(***************************************************************************)
C8_FoldStep ==
    /\ (pc = "fold" /\ operators[k + 1] = "AND" /\ ~result)
          => (calls' = calls /\ pc' = "done" /\ outcome' = "returned" /\ result' = FALSE)
    /\ (pc = "fold" /\ operators[k + 1] = "OR" /\ result)
          => ( /\ calls' = calls
               /\ result' = TRUE
               /\ IF k + 1 < Len(operators)
                  THEN pc' = "fold" /\ k' = k + 1 /\ outcome' = "running"
                  ELSE pc' = "done" /\ outcome' = "returned" )
    /\ (pc = "fold" /\ (operators[k + 1] = "AND" <=> result))
          => ( /\ Len(calls') = Len(calls) + 1
               /\ SubSeq(calls', 1, Len(calls)) = calls
               /\ calls'[Len(calls')].idx = k + 1
               /\ calls'[Len(calls')].expr = parts[k + 2] )
    /\ pc' \in {"fold", "done"}
          => (calls' # <<>> /\ calls'[1].idx = 0
              /\ calls'[1].expr = (IF parts' = <<>> THEN args' ELSE parts'[1]))
    /\ outcome' \in Errors
          => (pc' = "done" /\ calls'[Len(calls')].ret.kind = outcome')
    /\ (pc' = "done" /\ \A j \in 1..Len(calls') : calls'[j].ret.kind = "bool")
          => outcome' = "returned"

C8_LazyInOrder == [][C8_FoldStep]_vars

\* true OR <malformed> AND <clause>: the malformed clause is skipped and raises
\* nothing, the clause after the AND is evaluated
C8_Witness ==
    /\ pc = "done"
    /\ outcome = "returned"
    /\ operators = <<"OR", "AND">>
    /\ Len(calls) = 2
    /\ calls[1].idx = 0
    /\ calls[2].idx = 2
    /\ evaluate_comparison(parts[2], o, 1).ret.kind = "ValueError"

(***************************************************************************)
(* C9.  After a keyword is matched at position i the scan advances past    *)
(* it: matched keywords never overlap, and the untrimmed clauses           *)
(* interleaved with the matched keywords reproduce the input exactly.      *)
(***************************************************************************)
RECURSIVE Interleave(_, _, _)
Interleave(text, ps, ms) ==
    IF ms = <<>> THEN Head(ps)
    ELSE Head(ps) \o Slice(text, Head(ms), Head(ms) + KwLen(operators[Len(operators) - Len(ms) + 1]))
         \o Interleave(text, Tail(ps), Tail(ms))

C9_KeywordsDoNotOverlap ==
    /\ \A j \in 1..(Len(matched) - 1) :
           matched[j] + KwLen(operators[j]) <= matched[j + 1]
    /\ pc = "split_done" => Interleave(args, parts, matched) = args

(***************************************************************************)
(* C10.  During the scan len(parts) = len(operators); on return            *)
(* len(operators) = len(parts) - 1; with no connector the one clause is    *)
(* the whole string; every index i+1, for i an index of operators, that    *)
(* the fold of Expr.test reads in parts is in range.                       *)
(***************************************************************************)
C10_PartsAndOperators ==
    /\ pc = "scan" => Len(parts) = Len(operators)
    /\ pc = "split_done" =>
           /\ Len(operators) = Len(parts) - 1
           /\ operators = <<>> => parts = <<args>>
           /\ \A j \in 0..(Len(operators) - 1) : (j + 1) + 1 \in DOMAIN parts
    /\ Len(matched) = Len(operators)

\* a string with two connectors has been split into three clauses
C10_Witness ==
    /\ pc = "split_done"
    /\ Len(operators) = 2
    /\ Len(parts) = 3

====
